---- MODULE Spec2Model ----
(***************************************************************************)
(* Model of fof_stats.py: the reduction of a match timeline (frames of     *)
(* events plus per-participant snapshots) into a MatchStats value.         *)
(*                                                                         *)
(* compute_match_stats is modelled one loop iteration per step: the        *)
(* timeline source hands over the next frame, the generator of line 227    *)
(* keeps or drops it, every event of a kept frame is dispatched through    *)
(* EVENT_HANDLERS, and the end of the timeline runs the snapshot pass of   *)
(* lines 234-242.  The handlers are operators from (event, match_stats)    *)
(* to the mutated match_stats and the exception raised, if any.            *)
(*                                                                         *)
(* main (lines 245-250) calls compute_match_stats once per match id of     *)
(* sys.argv[1:], one after the other; an exception that leaves             *)
(* compute_match_stats or the timeline fetch leaves main as well.          *)
(***************************************************************************)
EXTENDS Integers, Sequences, FiniteSets, TLC

(***************************************************************************)
(* Bounds of the model.                                                    *)
(***************************************************************************)
\* events of the timelines of one run, over all their frames
MaxEvents == 2
\* match ids on the command line
MaxMatches == 2
\* entries of one assist list
MaxAssists == 2

(***************************************************************************)
(* Input domains.                                                          *)
(***************************************************************************)
\* ids of timeline.info.participants
ParticipantIds == {1, 2}
\* killer ids: a participant, or 0 for a kill that no participant made
KillerIds == {0} \cup ParticipantIds
TeamIds == {100, 200, 300}
LaneTypes == {"TOP_LANE", "MID_LANE", "BOT_LANE", "NONE"}
TowerTypes == {"OUTER_TURRET", "INNER_TURRET", "BASE_TURRET", "NEXUS_TURRET"}
MonsterTypes == {"DRAGON", "RIFTHERALD", "BARON_NASHOR"}
KillTypes == {"KILL_FIRST_BLOOD", "KILL_MULTI"}
UnknownTags == {"FOO_BAR", "ITEM_PURCHASED"}
\* frame timestamps, on both sides of the cutoff of line 227
Timestamps == {0, 929999, 930000}

\* the value of a name that no assignment has bound yet
Unbound == [unbound |-> TRUE]

IsBound(x) == "unbound" \notin DOMAIN x

\* an assist list names each assisting participant once
AssistLists ==
    {a \in UNION {[1..n -> ParticipantIds] : n \in 0..MaxAssists} :
        \A i \in DOMAIN a, j \in DOMAIN a : a[i] = a[j] => i = j}

BuildingKillEvents ==
    {[type |-> "BUILDING_KILL", team_id |-> t, lane_type |-> l,
      building_type |-> "TOWER_BUILDING", tower_type |-> tt] :
        t \in TeamIds, l \in LaneTypes, tt \in TowerTypes}
    \cup
    {[type |-> "BUILDING_KILL", team_id |-> t, lane_type |-> l,
      building_type |-> "INHIBITOR_BUILDING"] :
        t \in TeamIds, l \in LaneTypes}

\* a CHAMPION_KILL payload may lack assisting_participant_ids altogether
ChampionKillEvents ==
    {[type |-> "CHAMPION_KILL", killer_id |-> k, victim_id |-> v,
      assisting_participant_ids |-> a] :
        k \in KillerIds, v \in ParticipantIds, a \in AssistLists}
    \cup
    {[type |-> "CHAMPION_KILL", killer_id |-> k, victim_id |-> v] :
        k \in KillerIds, v \in ParticipantIds}

ChampionSpecialKillEvents ==
    {[type |-> "CHAMPION_SPECIAL_KILL", kill_type |-> kt, killer_id |-> k] :
        kt \in KillTypes, k \in KillerIds}

EliteMonsterKillEvents ==
    {[type |-> "ELITE_MONSTER_KILL", killer_team_id |-> t, monster_type |-> m] :
        t \in TeamIds, m \in MonsterTypes}

TurretPlateEvents ==
    {[type |-> "TURRET_PLATE_DESTROYED", team_id |-> t, lane_type |-> l] :
        t \in TeamIds, l \in LaneTypes}

OtherEvents == {[type |-> tag] : tag \in UnknownTags}

Events ==
    BuildingKillEvents \cup ChampionKillEvents \cup ChampionSpecialKillEvents
    \cup EliteMonsterKillEvents \cup TurretPlateEvents \cup OtherEvents

\* the second of play a timestamp falls in (timestamps are milliseconds)
Second(ts) == ts \div 1000

\* one entry of frame.participant_frames: what participant p has at time ts.
\* Everything is 0 at time 0; later the five values differ from each other,
\* between participants and between frames
ParticipantFrame(p, ts) ==
    [participant_id |-> p,
     minions_killed |-> (10 + p) * Second(ts),
     jungle_minions_killed |-> (20 + p) * Second(ts),
     total_gold |-> (30 + p) * Second(ts),
     xp |-> (40 + p) * Second(ts),
     level |-> (50 + p) * Second(ts)]

\* a frame without its events: the timestamp and one entry per participant
Frame(ts) ==
    [timestamp |-> ts,
     participant_frames |-> <<ParticipantFrame(1, ts), ParticipantFrame(2, ts)>>]

(***************************************************************************)
(* The aggregate state (lines 55-106).                                     *)
(***************************************************************************)
LaneStats == [plates |-> 0, towers |-> 0, inhib_down |-> FALSE]

\* nexus_towers is an attribute of MidLaneStats only
MidLaneStats == [plates |-> 0, towers |-> 0, inhib_down |-> FALSE, nexus_towers |-> 0]

TeamStats ==
    [dragons |-> 0, heralds |-> 0,
     top |-> LaneStats, mid |-> MidLaneStats, bot |-> LaneStats]

ParticipantStats ==
    [kills |-> 0, deaths |-> 0, assists |-> 0, minions_killed |-> 0,
     monsters_killed |-> 0, gold |-> 0, xp |-> 0, level |-> 0]

\* the display name the summoner api returns for participant p
SummonerName(p) == p + 1000

MatchStats ==
    [participant_stats |-> [p \in ParticipantIds |-> ParticipantStats],
     participant_names |-> [p \in ParticipantIds |-> SummonerName(p)],
     first_blood_by |-> 0,
     blue |-> TeamStats,
     red |-> TeamStats]

(***************************************************************************)
(* Lane resolution (lines 109-125).  A lane object is named by its path    *)
(* <<team field, lane field>> in match_stats; InvalidLane stands for the   *)
(* ValueError of line 125.                                                 *)
(***************************************************************************)
InvalidLane == <<"invalid", "invalid">>

\* get_lane with the last case returning the lane of the case before it
get_lane_copied_case(team_id, lane_type) ==
    CASE team_id = 100 /\ lane_type = "TOP_LANE" -> <<"blue", "top">>
      [] team_id = 100 /\ lane_type = "MID_LANE" -> <<"blue", "mid">>
      [] team_id = 100 /\ lane_type = "BOT_LANE" -> <<"blue", "bot">>
      [] team_id = 200 /\ lane_type = "TOP_LANE" -> <<"red", "top">>
      [] team_id = 200 /\ lane_type = "MID_LANE" -> <<"red", "mid">>
      [] team_id = 200 /\ lane_type = "BOT_LANE" -> <<"red", "mid">>
      [] OTHER -> InvalidLane

get_lane(team_id, lane_type) ==
    CASE team_id = 100 /\ lane_type = "TOP_LANE" -> <<"blue", "top">>
      [] team_id = 100 /\ lane_type = "MID_LANE" -> <<"blue", "mid">>
      [] team_id = 100 /\ lane_type = "BOT_LANE" -> <<"blue", "bot">>
      [] team_id = 200 /\ lane_type = "TOP_LANE" -> <<"red", "top">>
      [] team_id = 200 /\ lane_type = "MID_LANE" -> <<"red", "mid">>
      [] team_id = 200 /\ lane_type = "BOT_LANE" -> <<"red", "bot">>
      [] OTHER -> InvalidLane

\* the lane object at a path, and match_stats with that object replaced
LaneAt(match_stats, lane) == match_stats[lane[1]][lane[2]]

\* WithLane when both teams hold one and the same lane object per position
WithLaneOfBothTeams(match_stats, lane, stats) ==
    [match_stats EXCEPT !["blue"][lane[2]] = stats, !["red"][lane[2]] = stats]

WithLane(match_stats, lane, stats) ==
    [match_stats EXCEPT ![lane[1]][lane[2]] = stats]

\* what a handler leaves behind: the exception it raised ("none" when it
\* returned) and match_stats as mutated up to that point
Returned(match_stats) == [err |-> "none", ms |-> match_stats]

Raised(error, match_stats) == [err |-> error, ms |-> match_stats]

(***************************************************************************)
(* handle_building_kill (lines 128-144).                                   *)
(***************************************************************************)
\* NexusTurret storing the attribute without reading it first, so that any
\* lane object acquires it
NexusTurretStored(match_stats, lane) ==
    LET stats == LaneAt(match_stats, lane) IN
    Returned(WithLane(match_stats, lane,
        [f \in DOMAIN stats \cup {"nexus_towers"} |->
            IF f # "nexus_towers" THEN stats[f]
            ELSE IF f \in DOMAIN stats THEN stats[f] + 1 ELSE 1]))

\* lines 141-142: typing.cast does nothing at run time, and the read of
\* nexus_towers on a lane object without that attribute raises
NexusTurret(match_stats, lane) ==
    IF "nexus_towers" \in DOMAIN LaneAt(match_stats, lane)
    THEN Returned(WithLane(match_stats, lane,
             [LaneAt(match_stats, lane) EXCEPT !.nexus_towers = @ + 1]))
    ELSE Raised("AttributeError", match_stats)

\* SetTowers adding the level to the lane's towers
SetTowersAdded(match_stats, lane, level) ==
    WithLane(match_stats, lane, [LaneAt(match_stats, lane) EXCEPT !.towers = @ + level])

SetTowers(match_stats, lane, level) ==
    WithLane(match_stats, lane, [LaneAt(match_stats, lane) EXCEPT !.towers = level])

handle_building_kill(event, match_stats) ==
    LET lane == get_lane(event.team_id, event.lane_type) IN
    IF lane = InvalidLane THEN Raised("ValueError", match_stats)
    ELSE CASE event.building_type = "TOWER_BUILDING" ->
                (CASE event.tower_type = "OUTER_TURRET" ->
                        Returned(SetTowers(match_stats, lane, 1))
                   [] event.tower_type = "INNER_TURRET" ->
                        Returned(SetTowers(match_stats, lane, 2))
                   [] event.tower_type = "BASE_TURRET" ->
                        Returned(SetTowers(match_stats, lane, 3))
                   [] event.tower_type = "NEXUS_TURRET" ->
                        NexusTurret(match_stats, lane)
                   [] OTHER -> Returned(match_stats))
           [] event.building_type = "INHIBITOR_BUILDING" ->
                Returned(WithLane(match_stats, lane,
                    [LaneAt(match_stats, lane) EXCEPT !.inhib_down = TRUE]))
           [] OTHER -> Returned(match_stats)

(***************************************************************************)
(* handle_champ_kill (lines 147-156).                                      *)
(***************************************************************************)
\* AssistLoop counting the first id of the list only
AssistLoopFirstOnly(ids, match_stats) ==
    IF ids = <<>> THEN Returned(match_stats)
    ELSE IF Head(ids) \notin DOMAIN match_stats.participant_stats
         THEN Raised("KeyError", match_stats)
         ELSE Returned([match_stats EXCEPT
                  !.participant_stats[Head(ids)].assists = @ + 1])

\* lines 150-151: the loop over the assist list; an id that is no key of
\* participant_stats raises KeyError after the earlier ids were counted
RECURSIVE AssistLoop(_, _)
AssistLoop(ids, match_stats) ==
    IF ids = <<>> THEN Returned(match_stats)
    ELSE IF Head(ids) \notin DOMAIN match_stats.participant_stats
         THEN Raised("KeyError", match_stats)
         ELSE AssistLoop(Tail(ids),
                  [match_stats EXCEPT !.participant_stats[Head(ids)].assists = @ + 1])

\* CountAssists without the except clause of line 152
CountAssistsUncaught(event, match_stats) ==
    IF "assisting_participant_ids" \in DOMAIN event
    THEN AssistLoop(event.assisting_participant_ids, match_stats)
    ELSE Raised("AttributeError", match_stats)

\* lines 149-153: the read of a missing assisting_participant_ids raises
\* AttributeError, which the handler swallows
CountAssists(event, match_stats) ==
    IF "assisting_participant_ids" \in DOMAIN event
    THEN AssistLoop(event.assisting_participant_ids, match_stats)
    ELSE Returned(match_stats)

\* line 155
CountKill(event, match_stats) ==
    IF event.killer_id \notin DOMAIN match_stats.participant_stats
    THEN Raised("KeyError", match_stats)
    ELSE Returned([match_stats EXCEPT !.participant_stats[event.killer_id].kills = @ + 1])

\* line 156 with the death flagged rather than counted
CountDeathFlagged(event, match_stats) ==
    IF event.victim_id \notin DOMAIN match_stats.participant_stats
    THEN Raised("KeyError", match_stats)
    ELSE Returned([match_stats EXCEPT !.participant_stats[event.victim_id].deaths = 1])

\* line 156
CountDeath(event, match_stats) ==
    IF event.victim_id \notin DOMAIN match_stats.participant_stats
    THEN Raised("KeyError", match_stats)
    ELSE Returned([match_stats EXCEPT !.participant_stats[event.victim_id].deaths = @ + 1])

handle_champ_kill(event, match_stats) ==
    LET a == CountAssists(event, match_stats) IN
    IF a.err # "none" THEN a
    ELSE LET k == CountKill(event, a.ms) IN
         IF k.err # "none" THEN k ELSE CountDeath(event, k.ms)

(***************************************************************************)
(* handle_champ_special_kill (lines 159-164).                              *)
(***************************************************************************)
\* handle_champ_special_kill keeping the first first blood it was given
handle_champ_special_kill_first_wins(event, match_stats) ==
    IF event.kill_type = "KILL_FIRST_BLOOD" /\ match_stats.first_blood_by = 0
    THEN Returned([match_stats EXCEPT !.first_blood_by = event.killer_id])
    ELSE Returned(match_stats)

handle_champ_special_kill(event, match_stats) ==
    IF event.kill_type = "KILL_FIRST_BLOOD"
    THEN Returned([match_stats EXCEPT !.first_blood_by = event.killer_id])
    ELSE Returned(match_stats)

(***************************************************************************)
(* handle_elite_monster_kill (lines 168-177).                              *)
(***************************************************************************)
\* handle_elite_monster_kill counting every other monster as a dragon
handle_elite_monster_kill_default_dragon(event, match_stats) ==
    LET team_stats == IF event.killer_team_id = 100 THEN "blue" ELSE "red" IN
    CASE event.monster_type = "RIFTHERALD" ->
            Returned([match_stats EXCEPT ![team_stats].heralds = @ + 1])
      [] OTHER -> Returned([match_stats EXCEPT ![team_stats].dragons = @ + 1])

\* handle_elite_monster_kill taking 200 for red and any other value for blue
handle_elite_monster_kill_red_is_200(event, match_stats) ==
    LET team_stats == IF event.killer_team_id = 200 THEN "red" ELSE "blue" IN
    CASE event.monster_type = "DRAGON" ->
            Returned([match_stats EXCEPT ![team_stats].dragons = @ + 1])
      [] event.monster_type = "RIFTHERALD" ->
            Returned([match_stats EXCEPT ![team_stats].heralds = @ + 1])
      [] OTHER -> Returned(match_stats)

handle_elite_monster_kill(event, match_stats) ==
    LET team_stats == IF event.killer_team_id = 100 THEN "blue" ELSE "red" IN
    CASE event.monster_type = "DRAGON" ->
            Returned([match_stats EXCEPT ![team_stats].dragons = @ + 1])
      [] event.monster_type = "RIFTHERALD" ->
            Returned([match_stats EXCEPT ![team_stats].heralds = @ + 1])
      [] OTHER -> Returned(match_stats)

(***************************************************************************)
(* handle_turret_plate_destroyed (lines 180-185).                          *)
(***************************************************************************)
\* handle_turret_plate_destroyed passing over a plate of no known lane
handle_turret_plate_destroyed_skipping(event, match_stats) ==
    LET lane == get_lane(event.team_id, event.lane_type) IN
    IF lane = InvalidLane THEN Returned(match_stats)
    ELSE Returned(WithLane(match_stats, lane,
             [LaneAt(match_stats, lane) EXCEPT !.plates = @ + 1]))

handle_turret_plate_destroyed(event, match_stats) ==
    LET lane == get_lane(event.team_id, event.lane_type) IN
    IF lane = InvalidLane THEN Raised("ValueError", match_stats)
    ELSE Returned(WithLane(match_stats, lane,
             [LaneAt(match_stats, lane) EXCEPT !.plates = @ + 1]))

(***************************************************************************)
(* handle_default_event (lines 189-190).                                   *)
(***************************************************************************)
\* handle_default_event refusing the events it has no code for
handle_default_event_refusing(event, match_stats) ==
    Raised("NotImplementedError", match_stats)

handle_default_event(event, match_stats) == Returned(match_stats)

(***************************************************************************)
(* EVENT_HANDLERS (lines 193-202): a defaultdict from event tag to         *)
(* handler.  Subscripting it with a tag that is no key stores the default  *)
(* handler under that tag and returns it.                                  *)
(***************************************************************************)
RegisteredHandlers ==
    [tag \in {"BUILDING_KILL", "CHAMPION_KILL", "CHAMPION_SPECIAL_KILL",
              "ELITE_MONSTER_KILL", "TURRET_PLATE_DESTROYED"} |->
        CASE tag = "BUILDING_KILL" -> "handle_building_kill"
          [] tag = "CHAMPION_KILL" -> "handle_champ_kill"
          [] tag = "CHAMPION_SPECIAL_KILL" -> "handle_champ_special_kill"
          [] tag = "ELITE_MONSTER_KILL" -> "handle_elite_monster_kill"
          [] tag = "TURRET_PLATE_DESTROYED" -> "handle_turret_plate_destroyed"]

\* defaultdict.__getitem__: the handler found for the tag
Lookup(table, tag) ==
    IF tag \in DOMAIN table THEN table[tag] ELSE "handle_default_event"

\* defaultdict.__getitem__: the table after the lookup
AfterLookup(table, tag) ==
    IF tag \in DOMAIN table THEN table
    ELSE [t \in DOMAIN table \cup {tag} |->
            IF t = tag THEN "handle_default_event" ELSE table[t]]

\* the call of the handler found (line 231)
Call(handler, event, match_stats) ==
    CASE handler = "handle_building_kill" -> handle_building_kill(event, match_stats)
      [] handler = "handle_champ_kill" -> handle_champ_kill(event, match_stats)
      [] handler = "handle_champ_special_kill" ->
            handle_champ_special_kill(event, match_stats)
      [] handler = "handle_elite_monster_kill" ->
            handle_elite_monster_kill(event, match_stats)
      [] handler = "handle_turret_plate_destroyed" ->
            handle_turret_plate_destroyed(event, match_stats)
      [] OTHER -> handle_default_event(event, match_stats)

(***************************************************************************)
(* compute_match_stats (lines 213-242).                                    *)
(***************************************************************************)
Cutoff == 930000

\* the generator's condition with <= for <
SelectedUpToCutoff(f) == f.timestamp <= Cutoff

\* the condition of the generator of line 227
Selected(f) == f.timestamp < Cutoff

\* CopyEntry with monsters_killed taken from minions_killed
CopyEntryMinionsTwice(p, match_stats) ==
    IF p.participant_id \notin DOMAIN match_stats.participant_stats
    THEN Raised("KeyError", match_stats)
    ELSE Returned([match_stats EXCEPT
             !.participant_stats[p.participant_id] =
                 [@ EXCEPT !.minions_killed = p.minions_killed,
                           !.monsters_killed = p.minions_killed,
                           !.gold = p.total_gold,
                           !.xp = p.xp,
                           !.level = p.level]])

\* lines 235-240 for one entry p of frame.participant_frames
CopyEntry(p, match_stats) ==
    IF p.participant_id \notin DOMAIN match_stats.participant_stats
    THEN Raised("KeyError", match_stats)
    ELSE Returned([match_stats EXCEPT
             !.participant_stats[p.participant_id] =
                 [@ EXCEPT !.minions_killed = p.minions_killed,
                           !.monsters_killed = p.jungle_minions_killed,
                           !.gold = p.total_gold,
                           !.xp = p.xp,
                           !.level = p.level]])

\* lines 234-240: the loop over frame.participant_frames
RECURSIVE SnapshotLoop(_, _)
SnapshotLoop(entries, match_stats) ==
    IF entries = <<>> THEN Returned(match_stats)
    ELSE LET r == CopyEntry(Head(entries), match_stats) IN
         IF r.err # "none" THEN r ELSE SnapshotLoop(Tail(entries), r.ms)

\* lines 234-242: the name frame is bound by the loop of line 229 only, so
\* reading it after a loop that ran no iteration raises UnboundLocalError
SnapshotPass(f, match_stats) ==
    IF ~IsBound(f) THEN Raised("UnboundLocalError", match_stats)
    ELSE SnapshotLoop(f.participant_frames, match_stats)

\* line 231 for one event: the subscript of EVENT_HANDLERS, then the call
Dispatch(table, e, match_stats) == Call(Lookup(table, e.type), e, match_stats)

\* sys.argv[1:] (line 247): the match ids given, here numbered from 1
ArgLists == {[i \in 1..n |-> i] : n \in 0..MaxMatches}

\* the dict of lines 207-210 with the entry of participant p added
WithName(names, p) ==
    [q \in DOMAIN names \cup {p} |-> IF q = p THEN SummonerName(p) ELSE names[q]]

\* get_participant_names returning its dict with some name still missing
SomeResolved(names) == DOMAIN names # {}

\* lines 207-210: the comprehension ends once it went through every participant
AllResolved(names) == DOMAIN names = ParticipantIds

VARIABLES
    argv,            \* the match ids main was started with
    match_id,        \* position in argv of the id main works on, 0 before the loop
    stdout,          \* the ids whose stats main printed (line 250)
    names,           \* get_participant_names: the names resolved so far
    pc,              \* where main and compute_match_stats stand
    err,             \* the exception it raised, "none" so far
    match_stats,     \* the MatchStats object of line 217
    frame,           \* the loop variable of line 229
    event,           \* the loop variable of line 230
    EVENT_HANDLERS,  \* the module-level dispatch table
    consumed,        \* timestamps of the frames the generator has read so far
    nevents,         \* events of the timeline seen so far
    ndropped,        \* those of them that sat in frames the generator dropped
    before,          \* history: match_stats as the last handler call found it
    dispatched       \* history: the events handed to a handler in this call

vars == <<argv, match_id, stdout, names, pc, err, match_stats, frame, event,
          EVENT_HANDLERS, consumed, nevents, ndropped, before, dispatched>>

main_vars == <<argv, match_id, stdout>>

Init ==
    /\ argv \in ArgLists
    /\ match_id = 0
    /\ stdout = <<>>
    /\ names = <<>>
    /\ pc = "main"
    /\ err = "none"
    /\ match_stats = Unbound
    /\ frame = Unbound
    /\ event = Unbound
    /\ EVENT_HANDLERS = RegisteredHandlers
    /\ consumed = <<>>
    /\ nevents = 0
    /\ ndropped = 0
    /\ before = Unbound
    /\ dispatched = <<>>

\* line 247: main takes the next match id
NextMatch ==
    /\ pc = "main"
    /\ match_id < Len(argv)
    /\ match_id' = match_id + 1
    /\ pc' = "fetch"
    /\ UNCHANGED <<dispatched, argv, stdout, names, err, match_stats, frame,
                   event, EVENT_HANDLERS, consumed, nevents, ndropped,
                   before>>

\* line 247: no match id is left, main returns
MainReturns ==
    /\ pc = "main"
    /\ match_id = Len(argv)
    /\ pc' = "done"
    /\ UNCHANGED <<dispatched, main_vars, names, err, match_stats, frame,
                   event, EVENT_HANDLERS, consumed, nevents, ndropped,
                   before>>

\* line 248: the timeline of the match is fetched
FetchTimeline ==
    /\ pc = "fetch"
    /\ pc' = "start"
    /\ UNCHANGED <<dispatched, main_vars, names, err, match_stats, frame,
                   event, EVENT_HANDLERS, consumed, nevents, ndropped,
                   before>>

\* line 248: the fetch fails
FetchFails ==
    /\ pc = "fetch"
    /\ pc' = "raised"
    /\ err' = "FetchError"
    /\ UNCHANGED <<dispatched, main_vars, names, match_stats, frame, event,
                   EVENT_HANDLERS, consumed, nevents, ndropped, before>>

\* lines 207-210: the summoner api returns the name of the next participant
ResolveName(p) ==
    /\ pc = "start"
    /\ p \notin DOMAIN names
    /\ \A q \in ParticipantIds : q < p => q \in DOMAIN names
    /\ names' = WithName(names, p)
    /\ UNCHANGED <<dispatched, main_vars, pc, err, match_stats, frame, event,
                   EVENT_HANDLERS, consumed, nevents, ndropped, before>>

\* lines 217-222: every name resolved, the zeroed MatchStats is built
Construct ==
    /\ pc = "start"
    /\ AllResolved(names)
    /\ pc' = "constructed"
    /\ match_stats' = [MatchStats EXCEPT !.participant_names = names]
    /\ UNCHANGED <<dispatched, main_vars, names, err, frame, event,
                   EVENT_HANDLERS, consumed, nevents, ndropped, before>>

\* lines 205-210, 221: the lookup of the next participant's name fails
NameLookupFails ==
    /\ pc = "start"
    /\ DOMAIN names # ParticipantIds
    /\ pc' = "raised"
    /\ err' = "LookupError"
    /\ UNCHANGED <<dispatched, main_vars, names, match_stats, frame, event,
                   EVENT_HANDLERS, consumed, nevents, ndropped, before>>

\* lines 249-250: the stats are printed and the loop goes on; the locals
\* of the call that returned are gone
PrintStats ==
    /\ pc = "returned"
    /\ stdout' = Append(stdout, argv[match_id])
    /\ pc' = "main"
    /\ match_stats' = Unbound
    /\ frame' = Unbound
    /\ event' = Unbound
    /\ before' = Unbound
    /\ names' = <<>>
    /\ consumed' = <<>>
    /\ dispatched' = <<>>
    /\ UNCHANGED <<argv, match_id, err, EVENT_HANDLERS, nevents, ndropped>>

\* lines 224-225: the timeline has no frames
NoFrames ==
    /\ pc = "constructed"
    /\ pc' = "returned"
    /\ UNCHANGED <<dispatched, main_vars, names, err, match_stats, frame,
                   event, EVENT_HANDLERS, consumed, nevents, ndropped,
                   before>>

\* the timeline's frames come with strictly increasing timestamps
MayFollow(f, read) ==
    IF read = <<>> THEN TRUE ELSE f.timestamp > read[Len(read)]

\* whether the frame read last went through the generator's filter
InSelectedFrame(read) ==
    IF read = <<>> THEN FALSE ELSE Selected(Frame(read[Len(read)]))

InDroppedFrame(read) ==
    IF read = <<>> THEN FALSE ELSE ~Selected(Frame(read[Len(read)]))

\* VisitFrame with a loop variable that stays on the first frame it was given
VisitFrameKeepsFirst(f) ==
    /\ pc \in {"constructed", "loop"}
    /\ MayFollow(f, consumed)
    /\ Selected(f)
    /\ pc' = "loop"
    /\ consumed' = Append(consumed, f.timestamp)
    /\ frame' = IF IsBound(frame) THEN frame ELSE f
    /\ UNCHANGED <<dispatched, main_vars, names, err, match_stats, event,
                   EVENT_HANDLERS, nevents, ndropped, before>>

\* lines 227, 229: the generator yields the next frame of the timeline
VisitFrame(f) ==
    /\ pc \in {"constructed", "loop"}
    /\ MayFollow(f, consumed)
    /\ Selected(f)
    /\ pc' = "loop"
    /\ consumed' = Append(consumed, f.timestamp)
    /\ frame' = f
    /\ UNCHANGED <<dispatched, main_vars, names, err, match_stats, event,
                   EVENT_HANDLERS, nevents, ndropped, before>>

\* line 227: the generator drops the next frame of the timeline
DropFrame(f) ==
    /\ pc \in {"constructed", "loop"}
    /\ MayFollow(f, consumed)
    /\ ~Selected(f)
    /\ pc' = "loop"
    /\ consumed' = Append(consumed, f.timestamp)
    /\ UNCHANGED <<dispatched, main_vars, names, err, match_stats, frame,
                   event, EVENT_HANDLERS, nevents, ndropped, before>>

\* lines 230-231: the next event e of the frame being visited (events
\* belong to the frame read last)
DispatchEvent(e) ==
    /\ pc = "loop"
    /\ nevents < MaxEvents
    /\ InSelectedFrame(consumed)
    /\ LET r == Dispatch(EVENT_HANDLERS, e, match_stats) IN
        /\ event' = e
        /\ before' = match_stats
        /\ EVENT_HANDLERS' = AfterLookup(EVENT_HANDLERS, e.type)
        /\ match_stats' = r.ms
        /\ err' = r.err
        /\ pc' = IF r.err = "none" THEN "loop" ELSE "raised"
    /\ nevents' = nevents + 1
    /\ dispatched' = Append(dispatched, e)
    /\ UNCHANGED <<main_vars, names, frame, consumed, ndropped>>

\* an event e of a frame the generator dropped: no code ever reads it
DroppedEvent(e) ==
    /\ pc = "loop"
    /\ nevents < MaxEvents
    /\ InDroppedFrame(consumed)
    /\ nevents' = nevents + 1
    /\ ndropped' = ndropped + 1
    /\ UNCHANGED <<dispatched, main_vars, names, pc, err, match_stats, frame,
                   event, EVENT_HANDLERS, consumed, before>>

\* lines 234-242: the timeline is exhausted; snapshot pass and return
Finish ==
    /\ pc = "loop"
    /\ LET r == SnapshotPass(frame, match_stats) IN
        /\ match_stats' = r.ms
        /\ err' = r.err
        /\ pc' = IF r.err = "none" THEN "returned" ELSE "raised"
    /\ UNCHANGED <<dispatched, main_vars, names, frame, event, EVENT_HANDLERS,
                   consumed, nevents, ndropped, before>>

Next ==
    \/ NextMatch
    \/ MainReturns
    \/ FetchTimeline
    \/ FetchFails
    \/ \E p \in ParticipantIds : ResolveName(p)
    \/ Construct
    \/ NameLookupFails
    \/ NoFrames
    \/ \E ts \in Timestamps : VisitFrame(Frame(ts))
    \/ \E ts \in Timestamps : DropFrame(Frame(ts))
    \/ \E e \in Events : DispatchEvent(e)
    \/ \E e \in Events : DroppedEvent(e)
    \/ Finish
    \/ PrintStats

Spec == Init /\ [][Next]_vars

(***************************************************************************)
(* Properties.  They are stated against the program's state right after a  *)
(* handler call: event is the event it was called with, before is          *)
(* match_stats as the call found it, match_stats is what it left behind    *)
(* and err is the exception it raised.                                     *)
(***************************************************************************)
AfterHandler == IsBound(event) /\ pc \in {"loop", "raised"}

LanePaths == {"blue", "red"} \X {"top", "mid", "bot"}

ValidPair(team_id, lane_type) ==
    team_id \in {100, 200} /\ lane_type \in {"TOP_LANE", "MID_LANE", "BOT_LANE"}

\* the lane a valid pair names: 100 is blue and 200 is red
NamedLane(team_id, lane_type) ==
    <<IF team_id = 100 THEN "blue" ELSE "red",
      CASE lane_type = "TOP_LANE" -> "top"
        [] lane_type = "MID_LANE" -> "mid"
        [] lane_type = "BOT_LANE" -> "bot">>

\* C1: a BUILDING_KILL or TURRET_PLATE_DESTROYED event whose (team id, lane)
\* pair is one of the six valid ones works on the lane of that side and
\* position and on no other lane (a plate event adds its plate exactly
\* there); with any other pair the handler fails with the error of get_lane
\* and match_stats is as before.
C1_LaneResolution ==
    (AfterHandler /\ event.type \in {"BUILDING_KILL", "TURRET_PLATE_DESTROYED"}) =>
        IF ValidPair(event.team_id, event.lane_type)
        THEN LET named == NamedLane(event.team_id, event.lane_type) IN
             /\ err # "ValueError"
             /\ \A lane \in LanePaths :
                    LaneAt(match_stats, lane) # LaneAt(before, lane) => lane = named
             /\ event.type = "TURRET_PLATE_DESTROYED" =>
                    LaneAt(match_stats, named).plates = LaneAt(before, named).plates + 1
        ELSE /\ err = "ValueError"
             /\ pc = "raised"
             /\ match_stats = before

\* C1 witness: a plate went to the red bot lane, then an event with team id
\* 300 was refused.
C1_Witness ==
    /\ AfterHandler
    /\ event.type = "TURRET_PLATE_DESTROYED"
    /\ event.team_id = 300
    /\ err = "ValueError"
    /\ match_stats.red.bot.plates = 1
    /\ match_stats.red.top.plates = 0

\* what a CHAMPION_KILL event with the given assist list makes of match_stats
AfterKill(stats, killer, victim, assists) ==
    [stats EXCEPT !.participant_stats =
        [p \in ParticipantIds |->
            [stats.participant_stats[p] EXCEPT
                !.kills = @ + (IF p = killer THEN 1 ELSE 0),
                !.deaths = @ + (IF p = victim THEN 1 ELSE 0),
                !.assists = @ + (IF \E i \in DOMAIN assists : assists[i] = p
                                 THEN 1 ELSE 0)]]]

\* C2: a CHAMPION_KILL event with an assist list, made by a participant,
\* adds 1 to the killer's kills, 1 to the victim's deaths and 1 to the
\* assists of every id of the list, and nothing else of match_stats changes.
C2_KillWithAssists ==
    (/\ AfterHandler
     /\ event.type = "CHAMPION_KILL"
     /\ "assisting_participant_ids" \in DOMAIN event
     /\ event.killer_id \in ParticipantIds) =>
        /\ err = "none"
        /\ match_stats = AfterKill(before, event.killer_id, event.victim_id,
                                   event.assisting_participant_ids)

\* C2 witness: participant 1 killed 2 with the assist list <<2, 1>>.
C2_Witness ==
    /\ AfterHandler
    /\ event.type = "CHAMPION_KILL"
    /\ "assisting_participant_ids" \in DOMAIN event
    /\ event.assisting_participant_ids = <<2, 1>>
    /\ event.killer_id = 1
    /\ event.victim_id = 2
    /\ match_stats.participant_stats[1].assists = before.participant_stats[1].assists + 1
    /\ match_stats.participant_stats[2].assists = before.participant_stats[2].assists + 1
    /\ match_stats.participant_stats[1].kills = 1
    /\ match_stats.participant_stats[2].deaths = 1

\* C3: a CHAMPION_KILL event without an assist list, made by a participant,
\* is handled without error: kills of the killer and deaths of the victim
\* grow by 1 and nothing else changes, the assists of nobody in particular.
C3_KillWithoutAssistList ==
    (/\ AfterHandler
     /\ event.type = "CHAMPION_KILL"
     /\ "assisting_participant_ids" \notin DOMAIN event
     /\ event.killer_id \in ParticipantIds) =>
        /\ err = "none"
        /\ pc = "loop"
        /\ match_stats = AfterKill(before, event.killer_id, event.victim_id, <<>>)

\* C3 witness: a kill without assist list after one that had given
\* participant 2 an assist.
C3_Witness ==
    /\ AfterHandler
    /\ event.type = "CHAMPION_KILL"
    /\ "assisting_participant_ids" \notin DOMAIN event
    /\ event.killer_id = 1
    /\ before.participant_stats[2].assists = 1
    /\ match_stats.participant_stats[2].assists = 1
    /\ match_stats.participant_stats[1].kills = before.participant_stats[1].kills + 1
    /\ err = "none"

\* the level a tower sub-type stands for
Tier(tower_type) ==
    CASE tower_type = "OUTER_TURRET" -> 1
      [] tower_type = "INNER_TURRET" -> 2
      [] tower_type = "BASE_TURRET" -> 3

IsTierEvent(e) ==
    /\ e.type = "BUILDING_KILL"
    /\ e.building_type = "TOWER_BUILDING"
    /\ e.tower_type \in {"OUTER_TURRET", "INNER_TURRET", "BASE_TURRET"}
    /\ ValidPair(e.team_id, e.lane_type)

\* C4: after a tower event of sub-type outer, inner or base the lane it names
\* has towers = 1, 2 or 3, whatever towers was before (so outer then inner
\* leaves 2, and the same event twice leaves what it left once).
C4_TowersSet ==
    (AfterHandler /\ IsTierEvent(event)) =>
        /\ err = "none"
        /\ LaneAt(match_stats, NamedLane(event.team_id, event.lane_type)).towers
               = Tier(event.tower_type)

\* C4 witness: the inner turret of the blue top lane fell after its outer.
C4_Witness ==
    /\ AfterHandler
    /\ IsTierEvent(event)
    /\ event.tower_type = "INNER_TURRET"
    /\ event.team_id = 100
    /\ event.lane_type = "TOP_LANE"
    /\ before.blue.top.towers = 1
    /\ match_stats.blue.top.towers = 2

IsNexusEvent(e) ==
    /\ e.type = "BUILDING_KILL"
    /\ e.building_type = "TOWER_BUILDING"
    /\ e.tower_type = "NEXUS_TURRET"
    /\ ValidPair(e.team_id, e.lane_type)

\* C5: a nexus turret event on a mid lane adds 1 to that lane's nexus_towers
\* and leaves its towers, plates and inhib_down alone; on a top or bot lane
\* the handler fails and match_stats is as before; and no top or bot lane
\* ever has a nexus_towers attribute.
C5_NexusTurretMidOnly ==
    /\ IsBound(match_stats) =>
          \A side \in {"blue", "red"}, position \in {"top", "bot"} :
              "nexus_towers" \notin DOMAIN match_stats[side][position]
    /\ (AfterHandler /\ IsNexusEvent(event)) =>
          LET named == NamedLane(event.team_id, event.lane_type) IN
          IF event.lane_type = "MID_LANE"
          THEN /\ err = "none"
               /\ LaneAt(match_stats, named).nexus_towers
                      = LaneAt(before, named).nexus_towers + 1
               /\ LaneAt(match_stats, named).towers = LaneAt(before, named).towers
               /\ LaneAt(match_stats, named).plates = LaneAt(before, named).plates
               /\ LaneAt(match_stats, named).inhib_down
                      = LaneAt(before, named).inhib_down
          ELSE /\ err # "none"
               /\ pc = "raised"
               /\ match_stats = before

\* C5 witness: a nexus turret of the blue mid lane was counted, then a nexus
\* turret event naming the blue top lane was refused.
C5_Witness ==
    /\ AfterHandler
    /\ IsNexusEvent(event)
    /\ event.lane_type = "TOP_LANE"
    /\ event.team_id = 100
    /\ pc = "raised"
    /\ match_stats.blue.mid.nexus_towers = 1

\* timestamp of the frame of the timeline read last
LastRead == consumed[Len(consumed)]

\* the frame read last has a timestamp of 930000 or more
InLateFrame == IF consumed = <<>> THEN FALSE ELSE LastRead >= 930000

\* C6: the event loop never visits a frame with timestamp >= 930000, and an
\* event that sits in such a frame reaches no handler: the step that passes
\* it by changes neither match_stats nor anything else the result is made
\* from, so the result is that of the timeline without the event.
C6_LateFramesExcluded ==
    /\ [](IsBound(frame) => frame.timestamp < 930000)
    /\ [][(InLateFrame /\ nevents' = nevents + 1) =>
            UNCHANGED <<match_stats, frame, event, before, EVENT_HANDLERS, pc, err>>]_vars

\* C6 witness: a timeline with one event in a frame below 930000 and one
\* in the frame at 930000 was reduced to a result, which shows the first
\* event only.
C6_Witness ==
    /\ pc = "returned"
    /\ InLateFrame
    /\ nevents = 2
    /\ ndropped = 1
    /\ event.type = "ELITE_MONSTER_KILL"
    /\ match_stats.blue.dragons = 1

IsEarly(ts) == ts < 930000

\* timestamps of the frames read so far that are below 930000
EarlyRead == SelectSeq(consumed, IsEarly)

\* whether participant p's five snapshot fields in stats are those of the
\* frame with timestamp ts
HasSnapshotOf(stats, p, ts) ==
    \E i \in DOMAIN Frame(ts).participant_frames :
        LET entry == Frame(ts).participant_frames[i] IN
        /\ entry.participant_id = p
        /\ stats.participant_stats[p].minions_killed = entry.minions_killed
        /\ stats.participant_stats[p].monsters_killed = entry.jungle_minions_killed
        /\ stats.participant_stats[p].gold = entry.total_gold
        /\ stats.participant_stats[p].xp = entry.xp
        /\ stats.participant_stats[p].level = entry.level

\* C7 as stated: the returned snapshot fields are those of the last frame of
\* the timeline.
C7_SnapshotOfLastTimelineFrame ==
    (pc = "returned" /\ consumed # <<>>) =>
        \A p \in ParticipantIds : HasSnapshotOf(match_stats, p, LastRead)

\* C7 amended: the returned snapshot fields are those of the last frame the
\* event loop visited, which is the last frame of the timeline with a
\* timestamp below 930000: they are that frame's values and no combination
\* of several frames' values.
C7_SnapshotOfLastVisitedFrame ==
    (pc = "returned" /\ consumed # <<>>) =>
        /\ EarlyRead # <<>>
        /\ \A p \in ParticipantIds :
               HasSnapshotOf(match_stats, p, EarlyRead[Len(EarlyRead)])

\* C7 witness: three frames, the last at 930000; participant 1 has the gold
\* of the frame at 929999.
C7_Witness ==
    /\ pc = "returned"
    /\ consumed = <<0, 929999, 930000>>
    /\ match_stats.participant_stats[1].gold = 31 * 929
    /\ match_stats.participant_stats[2].level = 52 * 929

ZeroParticipant ==
    [kills |-> 0, deaths |-> 0, assists |-> 0, minions_killed |-> 0,
     monsters_killed |-> 0, gold |-> 0, xp |-> 0, level |-> 0]

ZeroTeam ==
    [dragons |-> 0, heralds |-> 0,
     top |-> [plates |-> 0, towers |-> 0, inhib_down |-> FALSE],
     mid |-> [plates |-> 0, towers |-> 0, inhib_down |-> FALSE, nexus_towers |-> 0],
     bot |-> [plates |-> 0, towers |-> 0, inhib_down |-> FALSE]]

\* every statistic of stats is at its zero default
AllZero(stats) ==
    /\ stats.participant_stats = [p \in ParticipantIds |-> ZeroParticipant]
    /\ stats.first_blood_by = 0
    /\ stats.blue = ZeroTeam
    /\ stats.red = ZeroTeam

SnapshotFields == {"minions_killed", "monsters_killed", "gold", "xp", "level"}

\* what the handler called with event may have written: every field of
\* match_stats that differs from before is one the event's handler writes
OnlyEventFieldsWritten ==
    /\ match_stats.participant_names = before.participant_names
    /\ \A p \in ParticipantIds :
        LET now == match_stats.participant_stats[p]
            was == before.participant_stats[p] IN
        /\ now.kills # was.kills =>
              event.type = "CHAMPION_KILL" /\ event.killer_id = p
        /\ now.deaths # was.deaths =>
              event.type = "CHAMPION_KILL" /\ event.victim_id = p
        /\ now.assists # was.assists =>
              /\ event.type = "CHAMPION_KILL"
              /\ "assisting_participant_ids" \in DOMAIN event
              /\ \E i \in DOMAIN event.assisting_participant_ids :
                     event.assisting_participant_ids[i] = p
        /\ \A f \in SnapshotFields : now[f] = was[f]
    /\ match_stats.first_blood_by # before.first_blood_by =>
          event.type = "CHAMPION_SPECIAL_KILL" /\ event.kill_type = "KILL_FIRST_BLOOD"
    /\ \A side \in {"blue", "red"} :
        /\ match_stats[side].dragons # before[side].dragons =>
              /\ event.type = "ELITE_MONSTER_KILL"
              /\ event.monster_type = "DRAGON"
              /\ (side = "blue") <=> (event.killer_team_id = 100)
        /\ match_stats[side].heralds # before[side].heralds =>
              /\ event.type = "ELITE_MONSTER_KILL"
              /\ event.monster_type = "RIFTHERALD"
              /\ (side = "blue") <=> (event.killer_team_id = 100)
    /\ \A lane \in LanePaths :
        LET now == LaneAt(match_stats, lane)
            was == LaneAt(before, lane) IN
        /\ DOMAIN now = DOMAIN was
        /\ now.plates # was.plates =>
              /\ event.type = "TURRET_PLATE_DESTROYED"
              /\ ValidPair(event.team_id, event.lane_type)
              /\ lane = NamedLane(event.team_id, event.lane_type)
        /\ now.towers # was.towers =>
              IsTierEvent(event) /\ lane = NamedLane(event.team_id, event.lane_type)
        /\ now.inhib_down # was.inhib_down =>
              /\ event.type = "BUILDING_KILL"
              /\ event.building_type = "INHIBITOR_BUILDING"
              /\ ValidPair(event.team_id, event.lane_type)
              /\ lane = NamedLane(event.team_id, event.lane_type)
        /\ lane[2] = "mid" =>
              (now.nexus_towers # was.nexus_towers =>
                  IsNexusEvent(event) /\ lane = NamedLane(event.team_id, event.lane_type))

\* the example of the claim: one frame at timestamp 0 with a kill of
\* participant 2 by participant 1, then a plate of the blue top lane
ExampleRun ==
    /\ pc = "returned"
    /\ consumed = <<0>>
    /\ nevents = 2
    /\ event = [type |-> "TURRET_PLATE_DESTROYED", team_id |-> 100,
                lane_type |-> "TOP_LANE"]
    /\ before = [MatchStats EXCEPT !.participant_stats[1].kills = 1,
                                   !.participant_stats[2].deaths = 1]

ExampleResult ==
    /\ match_stats.participant_stats[1] = [ZeroParticipant EXCEPT !.kills = 1]
    /\ match_stats.participant_stats[2] = [ZeroParticipant EXCEPT !.deaths = 1]
    /\ match_stats.first_blood_by = 0
    /\ match_stats.blue =
           [ZeroTeam EXCEPT !.top = [plates |-> 1, towers |-> 0, inhib_down |-> FALSE]]
    /\ match_stats.red = ZeroTeam

\* a step that calls a handler, and the step of the snapshot pass
HandlerStep == nevents' = nevents + 1 /\ ndropped' = ndropped

SnapshotStep == pc = "loop" /\ pc' = "returned"

\* C8: compute_match_stats is the fold of the handler calls from the all-zero
\* MatchStats, then the snapshot pass.  The MatchStats built is all zero; a
\* handler call changes only the fields its event writes; the snapshot pass
\* changes only the five snapshot fields; no other step changes match_stats;
\* so a field that no event and no snapshot wrote is still zero, as in the
\* example of the claim.
C8_FoldFromZero ==
    /\ [](pc = "constructed" => AllZero(match_stats))
    /\ [](AfterHandler => OnlyEventFieldsWritten)
    /\ [](ExampleRun => ExampleResult)
    /\ [][SnapshotStep =>
            /\ match_stats'.participant_names = match_stats.participant_names
            /\ match_stats'.first_blood_by = match_stats.first_blood_by
            /\ match_stats'.blue = match_stats.blue
            /\ match_stats'.red = match_stats.red
            /\ \A p \in ParticipantIds :
                \A f \in {"kills", "deaths", "assists"} :
                    match_stats'.participant_stats[p][f]
                        = match_stats.participant_stats[p][f]]_vars
    /\ [][(IsBound(match_stats) /\ pc # "returned" /\ ~HandlerStep /\ ~SnapshotStep) =>
            match_stats' = match_stats]_vars

\* C8 witness: the example of the claim has run.
C8_Witness == ExampleRun /\ ExampleResult /\ err = "none"

\* C9: an event with a tag that has no registered handler is dispatched to
\* a handler all the same (the tag has an entry in the table afterwards),
\* nothing is raised and match_stats is what it was before the event.
C9_UnknownTagNoOp ==
    (AfterHandler /\ event.type \notin DOMAIN RegisteredHandlers) =>
        /\ event.type \in DOMAIN EVENT_HANDLERS
        /\ err = "none"
        /\ pc = "loop"
        /\ match_stats = before

\* C9 witness: FOO_BAR was dispatched after a dragon kill had been counted.
C9_Witness ==
    /\ AfterHandler
    /\ event.type = "FOO_BAR"
    /\ before.blue.dragons = 1
    /\ match_stats.blue.dragons = 1
    /\ pc = "loop"

\* every frame of the timeline read so far has a timestamp of 930000 or more
AllFramesFiltered ==
    consumed # <<>> /\ \A i \in DOMAIN consumed : consumed[i] >= 930000

\* C10 as stated: when the filter removes every frame of a timeline that has
\* frames, compute_match_stats ends by returning a MatchStats with every
\* statistic zero.
C10_AllFilteredReturnsZero ==
    (AllFramesFiltered /\ pc \in {"returned", "raised"}) =>
        pc = "returned" /\ AllZero(match_stats)

\* the run is over: main returned, or an exception left it
Stopped == pc \in {"done", "raised"}

\* C11 as stated: a failure on one match id does not keep main from the ids
\* after it, so a run never stops before every id of argv was attempted.
C11_EveryIdAttempted == Stopped => match_id = Len(argv)

\* the event just dispatched is a building or plate event with no valid lane
InvalidLaneEvent ==
    /\ AfterHandler
    /\ event.type \in {"BUILDING_KILL", "TURRET_PLATE_DESTROYED"}
    /\ ~ValidPair(event.team_id, event.lane_type)

\* C12: a BUILDING_KILL or TURRET_PLATE_DESTROYED event with an invalid
\* (team id, lane) pair aborts the computation of its match: the handler
\* raises the error of get_lane and leaves every lane as it was; from then on
\* no step is taken at all, so no later event is dispatched, the snapshot
\* pass does not run, nothing is returned and nothing is printed for the id.
C12_InvalidLaneAborts ==
    /\ [](InvalidLaneEvent =>
            /\ pc = "raised"
            /\ err = "ValueError"
            /\ \A lane \in LanePaths : LaneAt(match_stats, lane) = LaneAt(before, lane)
            /\ \A i \in DOMAIN stdout : stdout[i] # argv[match_id])
    /\ [][err # "ValueError"]_vars

\* C12 witness: after a dragon of the red team was counted, a building kill
\* on lane NONE was refused.
C12_Witness ==
    /\ InvalidLaneEvent
    /\ event.type = "BUILDING_KILL"
    /\ event.lane_type = "NONE"
    /\ before.red.dragons = 1
    /\ match_stats.red.dragons = 1
    /\ err = "ValueError"

\* a display name is known for every participant of the match
EveryNameKnown(known) ==
    /\ DOMAIN known = ParticipantIds
    /\ \A p \in ParticipantIds : known[p] = SummonerName(p)

\* C13: name resolution is joined before the reduction.  A handler is only
\* ever called when get_participant_names has resolved the name of every
\* participant and the MatchStats holds them all; when a lookup fails, the
\* computation has failed with no event dispatched, no MatchStats built and
\* nothing printed for the id, and nothing happens afterwards.
C13_NamesBeforeReduction ==
    /\ [](IsBound(event) =>
            /\ EveryNameKnown(names)
            /\ IsBound(match_stats)
            /\ EveryNameKnown(match_stats.participant_names))
    /\ [](err = "LookupError" =>
            /\ pc = "raised"
            /\ ~IsBound(event)
            /\ ~IsBound(match_stats)
            /\ consumed = <<>>
            /\ \A i \in DOMAIN stdout : stdout[i] # argv[match_id])
    /\ [][HandlerStep => EveryNameKnown(names)]_vars
    /\ [][err # "LookupError"]_vars

\* C13 witness: the name of participant 1 was resolved, then the lookup for
\* participant 2 failed.
C13_Witness ==
    /\ err = "LookupError"
    /\ pc = "raised"
    /\ DOMAIN names = {1}
    /\ ~IsBound(match_stats)

\* C14 as stated: an invalid lane pair is the one failure of the reduction,
\* so a handler call that raised was given a building or plate event with an
\* invalid (team id, lane) pair and raised the error of get_lane.
C14_OnlyInvalidLaneFails ==
    (AfterHandler /\ pc = "raised") => (InvalidLaneEvent /\ err = "ValueError")

\* the team an ELITE_MONSTER_KILL event selects, and the other one
SelectedTeam(e) == IF e.killer_team_id = 100 THEN "blue" ELSE "red"

OtherTeam(e) == IF e.killer_team_id = 100 THEN "red" ELSE "blue"

\* C15: an ELITE_MONSTER_KILL event selects blue for killer team id 100 and
\* red for any other value; DRAGON adds 1 to that team's dragons, RIFTHERALD
\* adds 1 to its heralds, any other monster changes nothing; the team not
\* selected, the lanes, the participants and first_blood_by never change, and
\* the handler does not fail.
C15_EliteMonsterKill ==
    (AfterHandler /\ event.type = "ELITE_MONSTER_KILL") =>
        LET sel == SelectedTeam(event)
            now == match_stats[sel]
            was == before[sel] IN
        /\ err = "none"
        /\ pc = "loop"
        /\ match_stats[OtherTeam(event)] = before[OtherTeam(event)]
        /\ match_stats.participant_stats = before.participant_stats
        /\ match_stats.participant_names = before.participant_names
        /\ match_stats.first_blood_by = before.first_blood_by
        /\ now.top = was.top /\ now.mid = was.mid /\ now.bot = was.bot
        /\ now.dragons =
              IF event.monster_type = "DRAGON" THEN was.dragons + 1 ELSE was.dragons
        /\ now.heralds =
              IF event.monster_type = "RIFTHERALD" THEN was.heralds + 1 ELSE was.heralds

\* C15 witness: a herald taken by team 300 was counted for red, which had
\* taken a dragon before.
C15_Witness ==
    /\ AfterHandler
    /\ event = [type |-> "ELITE_MONSTER_KILL", killer_team_id |-> 300,
                monster_type |-> "RIFTHERALD"]
    /\ before.red.dragons = 1
    /\ match_stats.red.dragons = 1
    /\ match_stats.red.heralds = 1
    /\ match_stats.blue = before.blue

IsFirstBlood(e) ==
    e.type = "CHAMPION_SPECIAL_KILL" /\ e.kill_type = "KILL_FIRST_BLOOD"

\* the first blood events among the events dispatched so far, in order
FirstBloods == SelectSeq(dispatched, IsFirstBlood)

\* C16: first_blood_by is written by first blood events only, and the last
\* writer wins.  At every moment of a computation it is the killer id of the
\* last KILL_FIRST_BLOOD event dispatched so far, and its initial 0 when
\* there was none; a CHAMPION_SPECIAL_KILL event of another sub-type leaves
\* match_stats as it was and does not fail.
C16_FirstBloodLastWriter ==
    /\ IsBound(match_stats) =>
          match_stats.first_blood_by =
              IF FirstBloods = <<>> THEN 0
              ELSE FirstBloods[Len(FirstBloods)].killer_id
    /\ (AfterHandler /\ event.type = "CHAMPION_SPECIAL_KILL"
                     /\ event.kill_type # "KILL_FIRST_BLOOD") =>
          match_stats = before /\ err = "none" /\ pc = "loop"

\* C16 witness: first blood was dispatched for participant 1, then for
\* participant 2, and the stats returned name participant 2.
C16_Witness ==
    /\ pc = "returned"
    /\ Len(FirstBloods) = 2
    /\ FirstBloods[1].killer_id = 1
    /\ FirstBloods[2].killer_id = 2
    /\ match_stats.first_blood_by = 2

\* e is a plate event addressed to the lane at path lane
IsPlateFor(e, lane) ==
    /\ e.type = "TURRET_PLATE_DESTROYED"
    /\ ValidPair(e.team_id, e.lane_type)
    /\ NamedLane(e.team_id, e.lane_type) = lane

\* how many of the events dispatched so far were plate events for lane
PlateEvents(lane) ==
    Cardinality({i \in DOMAIN dispatched : IsPlateFor(dispatched[i], lane)})

\* C17: a TURRET_PLATE_DESTROYED event with a valid pair adds 1 to plates of
\* the lane it names and changes nothing else: not the other fields of that
\* lane, no other lane, no team counter, no participant, not first_blood_by.
\* The six lanes are separate objects, so at every moment each lane's plates
\* is the number of plate events dispatched for that lane so far.
C17_PlatesPerLane ==
    /\ (AfterHandler /\ event.type = "TURRET_PLATE_DESTROYED"
                     /\ ValidPair(event.team_id, event.lane_type)) =>
          LET named == NamedLane(event.team_id, event.lane_type) IN
          /\ err = "none"
          /\ match_stats =
                [before EXCEPT ![named[1]][named[2]].plates = @ + 1]
    /\ IsBound(match_stats) =>
          \A lane \in LanePaths : LaneAt(match_stats, lane).plates = PlateEvents(lane)

\* C17 witness: two plates of the blue mid lane were counted and the red mid
\* lane has none.
C17_Witness ==
    /\ pc = "returned"
    /\ PlateEvents(<<"blue", "mid">>) = 2
    /\ match_stats.blue.mid.plates = 2
    /\ match_stats.red.mid.plates = 0

\* the greatest timestamp below 930000 among the frames read so far
GreatestEarly ==
    CHOOSE t \in {consumed[i] : i \in DOMAIN consumed} :
        /\ t < 930000
        /\ \A i \in DOMAIN consumed : consumed[i] < 930000 => consumed[i] <= t

C19_DispatchTableUnchanged == [][EVENT_HANDLERS' = EVENT_HANDLERS]_vars

\* the sum of field f of the stats of the participants in ids
RECURSIVE SumOf(_, _, _)
SumOf(stats, f, ids) ==
    IF ids = {} THEN 0
    ELSE LET p == CHOOSE q \in ids : TRUE IN
         stats.participant_stats[p][f] + SumOf(stats, f, ids \ {p})

\* how many of the events dispatched in this computation were CHAMPION_KILL
ChampionKills ==
    Cardinality({i \in DOMAIN dispatched : dispatched[i].type = "CHAMPION_KILL"})

\* C20: in a MatchStats that compute_match_stats returns, the kills of all
\* participants and the deaths of all participants both add up to the number
\* of CHAMPION_KILL events dispatched, which are those of the frames below
\* 930000; the snapshot pass leaves kills, deaths and assists of every
\* participant as the event loop left them.
C20_KillsEqualDeaths ==
    /\ [](pc = "returned" =>
            /\ SumOf(match_stats, "kills", ParticipantIds) = ChampionKills
            /\ SumOf(match_stats, "deaths", ParticipantIds) = ChampionKills)
    /\ [][SnapshotStep =>
            \A p \in ParticipantIds :
                /\ match_stats'.participant_stats[p].kills
                      = match_stats.participant_stats[p].kills
                /\ match_stats'.participant_stats[p].deaths
                      = match_stats.participant_stats[p].deaths
                /\ match_stats'.participant_stats[p].assists
                      = match_stats.participant_stats[p].assists]_vars

\* C20 witness: participant 2 died twice, once by each participant, in a
\* frame at 929999 whose snapshot was taken.
C20_Witness ==
    /\ pc = "returned"
    /\ consumed = <<929999>>
    /\ ChampionKills = 2
    /\ match_stats.participant_stats[2].deaths = 2
    /\ match_stats.participant_stats[1].kills = 1
    /\ match_stats.participant_stats[2].kills = 1
    /\ match_stats.participant_stats[1].gold = 31 * 929

====

